---- MODULE Spec2Model ----
(***************************************************************************)
(* A model of the sudoku solver of src/src/game.rs: the Game state (board, *)
(* per-cell possibility arrays and the row / column / 3x3 occupancy        *)
(* flags), its mutation primitives, the propagation pass and the           *)
(* backtracking search of solve / solve_recursive, executed as a state     *)
(* machine with an explicit call stack.                                    *)
(***************************************************************************)
EXTENDS Integers, Sequences, FiniteSets, TLC

VARIABLES numbers, status, games, frames, last_prop, last_set, tried, ops

vars == <<numbers, status, games, frames, last_prop, last_set, tried, ops>>

\* Side of the board and of a 3x3 group.
N == 9
B == 3

\* Bounds of the explored inputs.
MaxPokes == 1
MaxOps == 3

Idx == 0 .. (N - 1)

\* Option<CellValue>::None; Some(cv) is the digit 1..9 itself.
None == 0

Min(S) == CHOOSE m \in S : \A o \in S : m <= o

Count(f) == Cardinality({i \in Idx : f[i]})

\* CellValue::new : u8 -> Option<CellValue>
CellValue_new(n) == IF n = 0 \/ n > 9 THEN None ELSE n

\* impl From<CellValue> for usize
USize(cv) == cv - 1

sqrs_ind(row, col) == B * (row \div B) + (col \div B)

-----------------------------------------------------------------------------
(* Validity and completion scans.                                          *)

\* The local rows / cols / sqrs arrays of solved and of is_valid when their
\* scan, row-major over the cells, comes to cell k holding cv: one of
\* rows[y][i], cols[x][i], sqrs[s][i] is set when a cell before k in the
\* scan, in the row, the column or the region of k, holds cv too.
seen_before(g, k, cv) ==
    \E j \in 0 .. (k - 1) :
        /\ g.board[j \div N][j % N] = cv
        /\ \/ j \div N = k \div N
           \/ j % N = k % N
           \/ sqrs_ind(j \div N, j % N) = sqrs_ind(k \div N, k % N)

\* The second half of is_valid: no cell of the scan finds its digit seen.
no_conflict(g) ==
    \A k \in 0 .. (N * N - 1) :
        g.board[k \div N][k % N] # None =>
            ~seen_before(g, k, g.board[k \div N][k % N])

is_valid(g) ==
    IF \E y \in Idx, x \in Idx :
          g.board[y][x] = None /\ (\A i \in Idx : ~g.cell_poss[y][x][i])
    THEN FALSE
    ELSE no_conflict(g)

\* Variant: an unset cell is skipped instead of ending the scan.
solved_skipping_unset(g) == no_conflict(g)

\* solved: the scan ends with false at an unset cell and at a digit seen.
solved(g) ==
    \A k \in 0 .. (N * N - 1) :
        /\ g.board[k \div N][k % N] # None
        /\ ~seen_before(g, k, g.board[k \div N][k % N])

-----------------------------------------------------------------------------
(* Construction.                                                           *)

\* The flags after the first loop of Game::new.
row_has(grid, y, i) == \E x \in Idx : grid[y][x] = i + 1
col_has(grid, x, i) == \E y \in Idx : grid[y][x] = i + 1
\* Variant: the region index is taken with row and column exchanged.
sqr_has_transposed(grid, s, i) ==
    \E y \in Idx, x \in Idx : sqrs_ind(x, y) = s /\ grid[y][x] = i + 1

sqr_has(grid, s, i) ==
    \E y \in Idx, x \in Idx : sqrs_ind(y, x) = s /\ grid[y][x] = i + 1

new_game(grid) ==
    [board |-> [y \in Idx |-> [x \in Idx |-> CellValue_new(grid[y][x])]],
     cell_poss |-> [y \in Idx |-> [x \in Idx |->
                      IF CellValue_new(grid[y][x]) # None
                      THEN [i \in Idx |-> i = grid[y][x] - 1]
                      ELSE [i \in Idx |->
                               ~(row_has(grid, y, i) \/ col_has(grid, x, i)
                                 \/ sqr_has(grid, sqrs_ind(y, x), i))]]],
     cols_flags |-> [x \in Idx |-> [i \in Idx |-> col_has(grid, x, i)]],
     rows_flags |-> [y \in Idx |-> [i \in Idx |-> row_has(grid, y, i)]],
     sqrs_flags |-> [s \in Idx |-> [i \in Idx |-> sqr_has(grid, s, i)]]]

\* Variant: the range assertion lets 10 through.
new_asserts_upto_ten(grid) ==
    /\ \A y \in Idx, x \in Idx : grid[y][x] <= 10
    /\ \E new \in {new_game(grid)} : is_valid(new)

\* The two assertions of Game::new.
new_asserts(grid) ==
    /\ \A y \in Idx, x \in Idx : grid[y][x] < 10
    /\ \E new \in {new_game(grid)} : is_valid(new)

-----------------------------------------------------------------------------
(* Cell mutation.                                                          *)

\* Variant: the loop over the affected column is left out.
update_poss_skipping_col(g, row, col) ==
    LET rs == B * (row \div B)
        cs == B * (col \div B)
        in_row_loop(y, x) == y = row
        in_sqr_loop(y, x) == /\ y \in (rs .. rs + 2) \ {row}
                             /\ x \in (cs .. cs + 2) \ {col}
    IN  [g EXCEPT !.cell_poss = [y \in Idx |-> [x \in Idx |->
            IF /\ g.board[y][x] = None
               /\ (in_row_loop(y, x) \/ in_sqr_loop(y, x))
            THEN [i \in Idx |->
                     ~(g.rows_flags[y][i] \/ g.cols_flags[x][i]
                       \/ g.sqrs_flags[B * (y \div B) + (x \div B)][i])]
            ELSE g.cell_poss[y][x]]]]

update_poss_from_flags(g, row, col) ==
    LET rs == B * (row \div B)
        cs == B * (col \div B)
        in_row_loop(y, x) == y = row
        in_col_loop(y, x) == x = col /\ y # row
        in_sqr_loop(y, x) == /\ y \in (rs .. rs + 2) \ {row}
                             /\ x \in (cs .. cs + 2) \ {col}
    IN  [g EXCEPT !.cell_poss = [y \in Idx |-> [x \in Idx |->
            IF /\ g.board[y][x] = None
               /\ (in_row_loop(y, x) \/ in_col_loop(y, x) \/ in_sqr_loop(y, x))
            THEN [i \in Idx |->
                     ~(g.rows_flags[y][i] \/ g.cols_flags[x][i]
                       \/ g.sqrs_flags[B * (y \div B) + (x \div B)][i])]
            ELSE g.cell_poss[y][x]]]]

\* Variant: the cell's own possibility array is left as it was.
set_cell_keeping_poss(g, row, col, cv) ==
    IF g.board[row][col] = cv THEN g
    ELSE update_poss_from_flags(
            [board |-> [g.board EXCEPT ![row][col] = cv],
             cell_poss |-> g.cell_poss,
             cols_flags |-> [g.cols_flags EXCEPT ![col][USize(cv)] = TRUE],
             rows_flags |-> [g.rows_flags EXCEPT ![row][USize(cv)] = TRUE],
             sqrs_flags |-> [g.sqrs_flags EXCEPT
                               ![sqrs_ind(row, col)][USize(cv)] = TRUE]],
            row, col)

set_cell(g, row, col, cv) ==
    IF g.board[row][col] = cv THEN g
    ELSE update_poss_from_flags(
            [board |-> [g.board EXCEPT ![row][col] = cv],
             cell_poss |-> [g.cell_poss EXCEPT
                               ![row][col] = [i \in Idx |-> i = USize(cv)]],
             cols_flags |-> [g.cols_flags EXCEPT ![col][USize(cv)] = TRUE],
             rows_flags |-> [g.rows_flags EXCEPT ![row][USize(cv)] = TRUE],
             sqrs_flags |-> [g.sqrs_flags EXCEPT
                               ![sqrs_ind(row, col)][USize(cv)] = TRUE]],
            row, col)

\* Variant: the column flag of the removed digit is left set.
unset_cell_keeping_col_flag(g, row, col) ==
    IF g.board[row][col] = None THEN g
    ELSE LET i == USize(g.board[row][col])
         IN  update_poss_from_flags(
                [board |-> [g.board EXCEPT ![row][col] = None],
                 cell_poss |-> g.cell_poss,
                 cols_flags |-> g.cols_flags,
                 rows_flags |-> [g.rows_flags EXCEPT ![row][i] = FALSE],
                 sqrs_flags |-> [g.sqrs_flags EXCEPT
                                   ![sqrs_ind(row, col)][i] = FALSE]],
                row, col)

unset_cell(g, row, col) ==
    IF g.board[row][col] = None THEN g
    ELSE LET i == USize(g.board[row][col])
         IN  update_poss_from_flags(
                [board |-> [g.board EXCEPT ![row][col] = None],
                 cell_poss |-> g.cell_poss,
                 cols_flags |-> [g.cols_flags EXCEPT ![col][i] = FALSE],
                 rows_flags |-> [g.rows_flags EXCEPT ![row][i] = FALSE],
                 sqrs_flags |-> [g.sqrs_flags EXCEPT
                                   ![sqrs_ind(row, col)][i] = FALSE]],
                row, col)

-----------------------------------------------------------------------------
(* Propagation.  propagate_poss_to_board runs as a sequence of steps, one  *)
(* per set_cell call it makes.  The checks of its first loop are numbered  *)
(* in the order the loop makes them: check p is about the digit of index   *)
(* p \div 3 and looks at rows_flags (p % 3 = 0), cols_flags (1) or         *)
(* sqrs_flags (2).  The cells of its second loop are numbered row-major.   *)

FlagChecks == 0 .. (3 * N - 1)
CellChecks == 0 .. (N * N - 1)

\* Variant: the digit is looked for once seven rows hold it.
rows_target_at_seven(g, cv) ==
    IF Cardinality({j \in Idx : g.rows_flags[j][cv]}) = 7
    THEN LET r == Min({j \in Idx : ~g.rows_flags[j][cv]})
             found == {c \in Idx : g.cell_poss[r][c][cv]}
         IN  IF found # {} THEN <<r, Min(found)>> ELSE <<>>
    ELSE <<>>

rows_target(g, cv) ==
    IF Cardinality({j \in Idx : g.rows_flags[j][cv]}) = 8
    THEN LET r == Min({j \in Idx : ~g.rows_flags[j][cv]})
             found == {c \in Idx : g.cell_poss[r][c][cv]}
         IN  IF found # {} THEN <<r, Min(found)>> ELSE <<>>
    ELSE <<>>

cols_target(g, cv) ==
    IF Cardinality({j \in Idx : g.cols_flags[j][cv]}) = 8
    THEN LET c == Min({j \in Idx : ~g.cols_flags[j][cv]})
             found == {r \in Idx : g.cell_poss[r][c][cv]}
         IN  IF found # {} THEN <<Min(found), c>> ELSE <<>>
    ELSE <<>>

sqrs_target(g, cv) ==
    IF Cardinality({j \in Idx : g.sqrs_flags[j][cv]}) = 8
    THEN LET s == Min({j \in Idx : ~g.sqrs_flags[j][cv]})
             rs == B * (s \div B)
             cs == B * (s % B)
             found == {p \in Idx : g.cell_poss[rs + (p \div B)][cs + (p % B)][cv]}
         IN  IF found # {}
             THEN <<rs + (Min(found) \div B), cs + (Min(found) % B)>>
             ELSE <<>>
    ELSE <<>>

\* The cell that check p of the first loop assigns, <<>> if it assigns none.
flag_target(g, p) ==
    IF p % 3 = 0 THEN rows_target(g, p \div 3)
    ELSE IF p % 3 = 1 THEN cols_target(g, p \div 3)
    ELSE sqrs_target(g, p \div 3)

flag_site(p) == IF p % 3 = 0 THEN "rows" ELSE IF p % 3 = 1 THEN "cols" ELSE "sqrs"

\* Variant: the cell is not required to be unset.
cell_fires_on_set_cells(g, k) ==
    Count(g.cell_poss[k \div N][k % N]) = 1

\* Cell k of the second loop is assigned: it is unset and has one candidate.
cell_fires(g, k) ==
    /\ g.board[k \div N][k % N] = None
    /\ Count(g.cell_poss[k \div N][k % N]) = 1

\* What a set_cell call of propagate_poss_to_board was made on: the call
\* site, the cell, the digit, the cell's content and its candidates before.
set_call(g, site, r, c, cv) ==
    [site |-> site, r |-> r, c |-> c, cv |-> cv, prev |-> g.board[r][c],
     cands |-> {i + 1 : i \in {j \in Idx : g.cell_poss[r][c][j]}},
     held |-> Cardinality({k \in CellChecks : g.board[k \div N][k % N] = cv})]

-----------------------------------------------------------------------------
(* Input grids.                                                            *)

Grid(t) == [y \in Idx |-> [x \in Idx |-> t[y + 1][x + 1]]]

\* main.rs: easy
EASY ==
    Grid(<<
          <<2, 0, 5, 0, 0, 9, 0, 0, 4>>,
          <<0, 0, 0, 0, 0, 0, 3, 0, 7>>,
          <<7, 0, 0, 8, 5, 6, 0, 1, 0>>,
          <<4, 5, 0, 7, 0, 0, 0, 0, 0>>,
          <<0, 0, 9, 0, 0, 0, 1, 0, 0>>,
          <<0, 0, 0, 0, 0, 2, 0, 8, 5>>,
          <<0, 2, 0, 4, 1, 8, 0, 0, 6>>,
          <<6, 0, 8, 0, 0, 0, 0, 0, 0>>,
          <<1, 0, 0, 2, 0, 0, 7, 0, 8>>>>)

\* main.rs: medium
MEDIUM ==
    Grid(<<
          <<0, 0, 6, 0, 9, 0, 2, 0, 0>>,
          <<0, 0, 0, 7, 0, 2, 0, 0, 0>>,
          <<0, 9, 0, 5, 0, 8, 0, 7, 0>>,
          <<9, 0, 0, 0, 3, 0, 0, 0, 6>>,
          <<7, 5, 0, 0, 0, 0, 0, 1, 9>>,
          <<1, 0, 0, 0, 4, 0, 0, 0, 5>>,
          <<0, 1, 0, 3, 0, 9, 0, 8, 0>>,
          <<0, 0, 0, 2, 0, 1, 0, 0, 0>>,
          <<0, 0, 9, 0, 8, 0, 1, 0, 0>>>>)

\* main.rs: hard
HARD ==
    Grid(<<
          <<0, 0, 0, 8, 0, 0, 0, 0, 0>>,
          <<7, 8, 9, 0, 1, 0, 0, 0, 6>>,
          <<0, 0, 0, 0, 0, 6, 1, 0, 0>>,
          <<0, 0, 7, 0, 0, 0, 0, 5, 0>>,
          <<5, 0, 8, 7, 0, 9, 3, 0, 4>>,
          <<0, 4, 0, 0, 0, 0, 2, 0, 0>>,
          <<0, 0, 3, 2, 0, 0, 0, 0, 0>>,
          <<8, 0, 0, 0, 7, 0, 4, 3, 9>>,
          <<0, 0, 0, 0, 0, 1, 0, 0, 0>>>>)

\* bench.rs: ZEROS, the empty grid
ZEROS == [y \in Idx |-> [x \in Idx |-> 0]]

\* A fully pre-filled valid grid (the completion of EASY).
SOLVED ==
    Grid(<<
          <<2, 1, 5, 3, 7, 9, 8, 6, 4>>,
          <<9, 8, 6, 1, 2, 4, 3, 5, 7>>,
          <<7, 3, 4, 8, 5, 6, 2, 1, 9>>,
          <<4, 5, 2, 7, 8, 1, 6, 9, 3>>,
          <<8, 6, 9, 5, 4, 3, 1, 7, 2>>,
          <<3, 7, 1, 6, 9, 2, 4, 8, 5>>,
          <<5, 2, 7, 4, 1, 8, 9, 3, 6>>,
          <<6, 4, 8, 9, 3, 7, 5, 2, 1>>,
          <<1, 9, 3, 2, 6, 5, 7, 4, 8>>>>)

\* SOLVED with the 3s of row 1, column 0 and region 0 and cell (1, 0) removed.
HOLES ==
    Grid(<<
          <<2, 1, 5, 3, 7, 9, 8, 6, 4>>,
          <<0, 8, 6, 1, 2, 4, 0, 5, 7>>,
          <<7, 0, 4, 8, 5, 6, 2, 1, 9>>,
          <<4, 5, 2, 7, 8, 1, 6, 9, 3>>,
          <<8, 6, 9, 5, 4, 3, 1, 7, 2>>,
          <<0, 7, 1, 6, 9, 2, 4, 8, 5>>,
          <<5, 2, 7, 4, 1, 8, 9, 3, 6>>,
          <<6, 4, 8, 9, 3, 7, 5, 2, 1>>,
          <<1, 9, 3, 2, 6, 5, 7, 4, 8>>>>)

\* Grids given to Game::new as they are, and grids also given overwritten.
Fixed == {HARD, ZEROS}
Bases == {EASY, MEDIUM, SOLVED, HOLES}

\* Cells and values with which a base grid is overwritten to obtain further
\* inputs (10 is out of range; 3 conflicts with, or starves, some peers).
PokeCells == {<<0, 0>>, <<0, 1>>, <<1, 0>>}
PokeVals == {0, 3, 10}

Pokes == UNION {[S -> PokeVals] : S \in {T \in SUBSET PokeCells : Cardinality(T) <= MaxPokes}}

Poked(g, f) ==
    [y \in Idx |-> [x \in Idx |->
        IF <<y, x>> \in DOMAIN f THEN f[<<y, x>>] ELSE g[y][x]]]

Inputs == Fixed \cup {Poked(g, f) : g \in Bases, f \in Pokes}

-----------------------------------------------------------------------------
(* The call stack.  frames[k] is the k-th active call: frames[1] is        *)
(* solve() and the others are solve_recursive calls.  games[k] is the      *)
(* Game that frames[k] has as self; the local `new` of frames[k], once     *)
(* passed to a recursive call, is games[k + 1].  A frame's pc is "loop"    *)
(* before a call of propagate_poss_to_board, "flags" and "cells" inside    *)
(* its two loops (pos is the next check), "prop_ret" when it has returned  *)
(* made_change, "branch" after the loop, "try" in the loop over the        *)
(* candidates (i is the next index), "called" during a recursive call and  *)
(* "ret" when the call has returned ret.                                   *)

Top == Len(frames)

frame(fn, pc, depth, max_depth) ==
    [fn |-> fn, pc |-> pc, depth |-> depth, max_depth |-> max_depth,
     y |-> 0, x |-> 0, poss |-> [i \in Idx |-> FALSE], i |-> 0, ret |-> FALSE,
     pos |-> 0, made_change |-> FALSE]

\* Variant: rows with an unset cell are counted, not unset cells.
depth_cap_by_rows(g) ==
    N - Cardinality({y \in Idx : \A x \in Idx : g.board[y][x] # None})

\* 81 - number of Some cells
depth_cap(g) ==
    N * N - Cardinality({k \in CellChecks : g.board[k \div N][k % N] # None})

\* self.iter().find(|cell| cell.is_none())
\* Variant: every cell counts, set or not.
unset_cells_any(g) == CellChecks

unset_cells(g) == {k \in CellChecks : g.board[k \div N][k % N] = None}

\* Variant: the first forced cell is filled in before the validity check.
tentative_propagated(g, y, x, cv) ==
    CHOOSE r \in {IF \A k \in CellChecks : ~cell_fires(new, k) THEN new
                  ELSE LET k == Min({j \in CellChecks : cell_fires(new, j)})
                       IN  set_cell(new, k \div N, k % N,
                               CellValue_new(Min({i \in Idx :
                                   new.cell_poss[k \div N][k % N][i]}) + 1))
                  : new \in {set_cell(g, y, x, cv)}} : TRUE

\* let mut new = *self; new.set_cell(y, x, cv);
tentative(g, y, x, cv) == set_cell(g, y, x, cv)

\* Variant: the candidate at the first position is passed over.
remaining_after_first(f) == {c \in Idx : c > f.i /\ f.poss[c]}

\* Indexes of the candidates of the branch cell not yet tried.
remaining(f) == {c \in Idx : c >= f.i /\ f.poss[c]}

Init ==
    /\ numbers \in Inputs
    /\ status = "start"
    /\ games = <<>>
    /\ frames = <<>>
    /\ last_prop = <<>>
    /\ last_set = <<>>
    /\ tried = <<>>
    /\ ops = 0

\* Game::new
New ==
    /\ status = "start"
    /\ IF new_asserts(numbers)
       THEN /\ status' = "built"
            /\ games' = <<new_game(numbers)>>
       ELSE /\ status' = "aborted"
            /\ games' = games
    /\ UNCHANGED <<numbers, frames, last_prop, last_set, tried, ops>>

\* solve: entry
SolveEntry ==
    /\ status = "built"
    /\ IF solved(games[1])
       THEN /\ status' = "returned"
            /\ frames' = <<frame("solve", "ret_entry", 0, 0)>>
       ELSE /\ status' = "solving"
            /\ frames' = <<frame("solve", "loop", 0, 0)>>
    /\ UNCHANGED <<numbers, games, last_prop, last_set, tried, ops>>

\* propagate_poss_to_board: entry
PropStart ==
    /\ status = "solving"
    /\ frames[Top].pc = "loop"
    /\ IF ~solved(games[Top])
       THEN /\ frames' = [frames EXCEPT ![Top].pc = "flags", ![Top].pos = 0,
                                        ![Top].made_change = FALSE]
            /\ last_prop' = <<[before |-> games[Top], after |-> games[Top],
                               done |-> FALSE, ret |-> FALSE]>>
       ELSE /\ frames' = [frames EXCEPT ![Top].pc = "prop_ret",
                                        ![Top].made_change = FALSE]
            /\ last_prop' = <<[before |-> games[Top], after |-> games[Top],
                               done |-> TRUE, ret |-> FALSE]>>
    /\ UNCHANGED <<numbers, status, games, last_set, tried, ops>>

\* propagate_poss_to_board: the first loop, up to its next set_cell call
PropFlags ==
    /\ status = "solving"
    /\ frames[Top].pc = "flags"
    /\ LET g == games[Top]
           firing == {p \in FlagChecks : p >= frames[Top].pos /\ flag_target(g, p) # <<>>}
       IN  IF firing = {}
           THEN /\ frames' = [frames EXCEPT ![Top].pc = "cells", ![Top].pos = 0]
                /\ UNCHANGED <<games, last_set>>
           ELSE \E p \in {Min(firing)} :
                \E t \in {flag_target(g, p)}, cv \in {CellValue_new((p \div 3) + 1)} :
                    /\ games' = [games EXCEPT ![Top] = set_cell(g, t[1], t[2], cv)]
                    /\ last_set' = <<set_call(g, flag_site(p), t[1], t[2], cv)>>
                    /\ frames' = [frames EXCEPT ![Top].pos = p + 1,
                                                ![Top].made_change = TRUE]
    /\ UNCHANGED <<numbers, status, last_prop, tried, ops>>

\* propagate_poss_to_board: the second loop, up to its next set_cell call,
\* and the return of made_change
PropCells ==
    /\ status = "solving"
    /\ frames[Top].pc = "cells"
    /\ LET g == games[Top]
           firing == {k \in CellChecks : k >= frames[Top].pos /\ cell_fires(g, k)}
       IN  IF firing = {}
           THEN /\ frames' = [frames EXCEPT ![Top].pc = "prop_ret"]
                /\ last_prop' = <<[last_prop[1] EXCEPT !.after = g, !.done = TRUE,
                                                      !.ret = frames[Top].made_change]>>
                /\ UNCHANGED <<games, last_set>>
           ELSE \E k \in {Min(firing)} :
                \E y \in {k \div N}, x \in {k % N} :
                \E cv \in {CellValue_new(Min({i \in Idx : g.cell_poss[y][x][i]}) + 1)} :
                    /\ games' = [games EXCEPT ![Top] = set_cell(g, y, x, cv)]
                    /\ last_set' = <<set_call(g, "cell", y, x, cv)>>
                    /\ frames' = [frames EXCEPT ![Top].pos = k + 1,
                                                ![Top].made_change = TRUE]
                    /\ UNCHANGED last_prop
    /\ UNCHANGED <<numbers, status, tried, ops>>

\* solve: loop { if !self.propagate_poss_to_board() { break; } }
SolveLoop ==
    /\ status = "solving"
    /\ Top = 1
    /\ frames[1].pc = "prop_ret"
    /\ frames' = [frames EXCEPT ![1].pc =
                     IF ~frames[1].made_change THEN "branch" ELSE "loop"]
    /\ UNCHANGED <<numbers, status, games, last_prop, last_set, tried, ops>>

\* solve: after the loop, up to the start of the iteration over candidates
SolveBranch ==
    /\ status = "solving"
    /\ Top = 1
    /\ frames[1].pc = "branch"
    /\ IF solved(games[1])
       THEN /\ status' = "returned"
            /\ frames' = [frames EXCEPT ![1].pc = "ret_prop"]
       ELSE IF unset_cells(games[1]) = {}
       THEN /\ status' = "panicked"
            /\ frames' = [frames EXCEPT ![1].pc = "unwrap"]
       ELSE LET k == Min(unset_cells(games[1]))
            IN  /\ status' = status
                /\ frames' = [frames EXCEPT ![1] =
                                 [@ EXCEPT !.pc = "try",
                                           !.max_depth = depth_cap(games[1]),
                                           !.y = k \div N,
                                           !.x = k % N,
                                           !.poss = games[1].cell_poss[k \div N][k % N],
                                           !.i = 0]]
    /\ UNCHANGED <<numbers, games, last_prop, last_set, tried, ops>>

\* solve: one iteration of the loop over the candidates.  The copy `new` is
\* dropped when the candidate is rejected; tried keeps it as it was when
\* is_valid was called (checked) and as unset_cell left it (undone).
SolveTry ==
    /\ status = "solving"
    /\ Top = 1
    /\ frames[1].pc = "try"
    /\ remaining(frames[1]) # {}
    /\ \E f \in {frames[1]} :
       \E c \in {Min(remaining(f))} :
       \E cv \in {CellValue_new(c + 1)} :
       \E new \in {tentative(games[1], f.y, f.x, cv)} :
       \E valid \in {is_valid(new)} :
           /\ tried' = <<[level |-> 1, y |-> f.y, x |-> f.x, cv |-> cv,
                          self |-> games[1], checked |-> new, valid |-> valid,
                          undone |-> IF valid THEN new
                                     ELSE unset_cell(new, f.y, f.x)]>>
           /\ IF ~valid
              THEN /\ frames' = [frames EXCEPT ![1].i = c + 1]
                   /\ UNCHANGED <<games, status>>
              ELSE IF solved(new)
              THEN /\ games' = <<new>>
                   /\ frames' = [frames EXCEPT ![1].pc = "ret_set"]
                   /\ status' = "returned"
              ELSE /\ games' = <<games[1], new>>
                   /\ frames' = <<[f EXCEPT !.pc = "called", !.i = c + 1],
                                  frame("solve_recursive", "entry", 1, f.max_depth)>>
                   /\ UNCHANGED status
    /\ UNCHANGED <<numbers, last_prop, last_set, ops>>

\* solve: the recursive call returned
SolveResume ==
    /\ status = "solving"
    /\ Top = 2
    /\ frames[2].pc = "ret"
    /\ IF frames[2].ret
       THEN /\ games' = <<games[2]>>
            /\ frames' = <<[frames[1] EXCEPT !.pc = "ret_rec"]>>
            /\ status' = "returned"
       ELSE /\ games' = <<games[1]>>
            /\ frames' = <<[frames[1] EXCEPT !.pc = "try"]>>
            /\ UNCHANGED status
    /\ UNCHANGED <<numbers, last_prop, last_set, tried, ops>>

\* solve: every candidate failed
SolveExhausted ==
    /\ status = "solving"
    /\ Top = 1
    /\ frames[1].pc = "try"
    /\ remaining(frames[1]) = {}
    /\ status' = "panicked"
    /\ frames' = [frames EXCEPT ![1].pc = "panic"]
    /\ UNCHANGED <<numbers, games, last_prop, last_set, tried, ops>>

\* solve_recursive: the depth bound
RecEntry ==
    /\ status = "solving"
    /\ Top > 1
    /\ frames[Top].pc = "entry"
    /\ IF frames[Top].depth > frames[Top].max_depth
       THEN frames' = [frames EXCEPT ![Top].pc = "ret", ![Top].ret = FALSE]
       ELSE frames' = [frames EXCEPT ![Top].pc = "loop"]
    /\ UNCHANGED <<numbers, status, games, last_prop, last_set, tried, ops>>

\* Variant: the loop goes on until the board is solved.
RecLoop_until_solved ==
    /\ status = "solving"
    /\ Top > 1
    /\ frames[Top].pc = "prop_ret"
    /\ frames' = [frames EXCEPT ![Top].pc =
                     IF solved(games[Top]) THEN "branch" ELSE "loop"]
    /\ UNCHANGED <<numbers, status, games, last_prop, last_set, tried, ops>>

\* solve_recursive: loop { if !self.propagate_poss_to_board() { break; } }
RecLoop ==
    /\ status = "solving"
    /\ Top > 1
    /\ frames[Top].pc = "prop_ret"
    /\ frames' = [frames EXCEPT ![Top].pc =
                     IF ~frames[Top].made_change THEN "branch" ELSE "loop"]
    /\ UNCHANGED <<numbers, status, games, last_prop, last_set, tried, ops>>

\* solve_recursive: after the loop, up to the start of the iteration
RecBranch ==
    /\ status = "solving"
    /\ Top > 1
    /\ frames[Top].pc = "branch"
    /\ IF solved(games[Top])
       THEN /\ status' = status
            /\ frames' = [frames EXCEPT ![Top].pc = "ret", ![Top].ret = TRUE]
       ELSE IF unset_cells(games[Top]) = {}
       THEN /\ status' = "panicked"
            /\ frames' = [frames EXCEPT ![Top].pc = "unwrap"]
       ELSE LET k == Min(unset_cells(games[Top]))
            IN  /\ status' = status
                /\ frames' = [frames EXCEPT ![Top] =
                                 [@ EXCEPT !.pc = "try",
                                           !.y = k \div N,
                                           !.x = k % N,
                                           !.poss = games[Top].cell_poss[k \div N][k % N],
                                           !.i = 0]]
    /\ UNCHANGED <<numbers, games, last_prop, last_set, tried, ops>>

\* solve_recursive: one iteration of the loop over the candidates.  When
\* `new` is found solved, true is returned and self is left as it is.
RecTry ==
    /\ status = "solving"
    /\ Top > 1
    /\ frames[Top].pc = "try"
    /\ remaining(frames[Top]) # {}
    /\ \E f \in {frames[Top]} :
       \E c \in {Min(remaining(f))} :
       \E cv \in {CellValue_new(c + 1)} :
       \E new \in {tentative(games[Top], f.y, f.x, cv)} :
       \E valid \in {is_valid(new)} :
           /\ tried' = <<[level |-> Top, y |-> f.y, x |-> f.x, cv |-> cv,
                          self |-> games[Top], checked |-> new, valid |-> valid,
                          undone |-> IF valid THEN new
                                     ELSE unset_cell(new, f.y, f.x)]>>
           /\ IF ~valid
              THEN /\ frames' = [frames EXCEPT ![Top].i = c + 1]
                   /\ UNCHANGED games
              ELSE IF solved(new)
              THEN /\ frames' = [frames EXCEPT ![Top].pc = "ret", ![Top].ret = TRUE]
                   /\ UNCHANGED games
              ELSE /\ games' = Append(games, new)
                   /\ frames' = Append([frames EXCEPT ![Top].pc = "called",
                                                      ![Top].i = c + 1],
                                       frame("solve_recursive", "entry",
                                             f.depth + 1, f.max_depth))
    /\ UNCHANGED <<numbers, status, last_prop, last_set, ops>>

\* solve_recursive: the recursive call returned
RecResume ==
    /\ status = "solving"
    /\ Top > 2
    /\ frames[Top].pc = "ret"
    /\ IF frames[Top].ret
       THEN /\ games' = [SubSeq(games, 1, Top - 1) EXCEPT ![Top - 1] = games[Top]]
            /\ frames' = [SubSeq(frames, 1, Top - 1) EXCEPT
                             ![Top - 1].pc = "ret", ![Top - 1].ret = TRUE]
       ELSE /\ games' = SubSeq(games, 1, Top - 1)
            /\ frames' = [SubSeq(frames, 1, Top - 1) EXCEPT ![Top - 1].pc = "try"]
    /\ UNCHANGED <<numbers, status, last_prop, last_set, tried, ops>>

\* solve_recursive: every candidate failed
RecExhausted ==
    /\ status = "solving"
    /\ Top > 1
    /\ frames[Top].pc = "try"
    /\ remaining(frames[Top]) = {}
    /\ frames' = [frames EXCEPT ![Top].pc = "ret", ![Top].ret = FALSE]
    /\ UNCHANGED <<numbers, status, games, last_prop, last_set, tried, ops>>

Next ==
    \/ New
    \/ SolveEntry
    \/ PropStart
    \/ PropFlags
    \/ PropCells
    \/ SolveLoop
    \/ SolveBranch
    \/ SolveTry
    \/ SolveResume
    \/ SolveExhausted
    \/ RecEntry
    \/ RecLoop
    \/ RecBranch
    \/ RecTry
    \/ RecResume
    \/ RecExhausted

Spec == Init /\ [][Next]_vars

\* The program is sequential and runs on: a step that can be taken is taken.
FairSpec == Spec /\ WF_vars(Next)

-----------------------------------------------------------------------------
(* set_cell and unset_cell called directly, in any order, on a few cells   *)
(* of a constructed Game.                                                  *)

OpCells == {<<0, 0>>, <<0, 1>>, <<1, 0>>, <<4, 4>>}
OpDigits == {1, 2}

InitCells ==
    /\ numbers \in {ZEROS, EASY}
    /\ status = "cells"
    /\ games = <<new_game(numbers)>>
    /\ frames = <<>>
    /\ last_prop = <<>>
    /\ last_set = <<>>
    /\ tried = <<>>
    /\ ops = 0

SetCell ==
    /\ status = "cells"
    /\ ops < MaxOps
    /\ \E c \in OpCells, d \in OpDigits :
          games' = <<set_cell(games[1], c[1], c[2], CellValue_new(d))>>
    /\ ops' = ops + 1
    /\ UNCHANGED <<numbers, status, frames, last_prop, last_set, tried>>

UnsetCell ==
    /\ status = "cells"
    /\ ops < MaxOps
    /\ \E c \in OpCells : games' = <<unset_cell(games[1], c[1], c[2])>>
    /\ ops' = ops + 1
    /\ UNCHANGED <<numbers, status, frames, last_prop, last_set, tried>>

NextCells == SetCell \/ UnsetCell

SpecCells == InitCells /\ [][NextCells]_vars

-----------------------------------------------------------------------------
(* set_cell called as solve calls it, on an unset cell with one of the     *)
(* cell's possible digits, and then, on any unset cell with any of its     *)
(* possible digits, set_cell followed by unset_cell.                       *)

UndoCells == OpCells \cup {<<0, 8>>, <<1, 1>>, <<2, 4>>, <<8, 0>>}

PossDigits(g, y, x) == {i + 1 : i \in {j \in Idx : g.cell_poss[y][x][j]}}

InitUndo ==
    /\ numbers \in {ZEROS, EASY, HOLES}
    /\ status = "undo"
    /\ games = <<new_game(numbers)>>
    /\ frames = <<>>
    /\ last_prop = <<>>
    /\ last_set = <<>>
    /\ tried = <<>>
    /\ ops = 0

SetPossible ==
    /\ status = "undo"
    /\ tried = <<>>
    /\ ops < MaxOps
    /\ \E c \in OpCells :
          /\ games[1].board[c[1]][c[2]] = None
          /\ \E d \in PossDigits(games[1], c[1], c[2]) \cap OpDigits :
                games' = <<set_cell(games[1], c[1], c[2], CellValue_new(d))>>
    /\ ops' = ops + 1
    /\ UNCHANGED <<numbers, status, frames, last_prop, last_set, tried>>

SetThenUnset ==
    /\ status = "undo"
    /\ tried = <<>>
    /\ \E c \in UndoCells :
          /\ games[1].board[c[1]][c[2]] = None
          /\ \E d \in PossDigits(games[1], c[1], c[2]) :
             \E new \in {set_cell(games[1], c[1], c[2], CellValue_new(d))} :
                tried' = <<[level |-> 0, y |-> c[1], x |-> c[2],
                            cv |-> CellValue_new(d),
                            self |-> games[1], checked |-> new,
                            valid |-> is_valid(new),
                            undone |-> unset_cell(new, c[1], c[2])]>>
    /\ UNCHANGED <<numbers, status, games, frames, last_prop, last_set, ops>>

NextUndo == SetPossible \/ SetThenUnset

SpecUndo == InitUndo /\ [][NextUndo]_vars

-----------------------------------------------------------------------------
(* Reference notions, stated on grids of digits independently of the       *)
(* solver's bookkeeping.                                                   *)

Digits == 1 .. N

Cells == Idx \X Idx

RowOf(y) == {<<y, x>> : x \in Idx}
ColOf(x) == {<<y, x>> : y \in Idx}
SqrOf(s) == {c \in Cells : B * (c[1] \div B) + (c[2] \div B) = s}
Units == {RowOf(j) : j \in Idx} \cup {ColOf(j) : j \in Idx} \cup {SqrOf(j) : j \in Idx}

Peers(c) == {d \in Cells : d # c /\ (d[1] = c[1] \/ d[2] = c[2]
                                     \/ (d[1] \div B = c[1] \div B /\ d[2] \div B = c[2] \div B))}

\* Every row, column and region holds each digit exactly once.
SolvedBoard(b) ==
    /\ \A c \in Cells : b[c[1]][c[2]] \in Digits
    /\ \A u \in Units : {b[c[1]][c[2]] : c \in u} = Digits

\* Digits held by the peers of a cell.
PeerDigits(b, c) == {b[d[1]][d[2]] : d \in Peers(c)} \ {0}

NoRepeat(b) == \A c \in Cells : b[c[1]][c[2]] = 0 \/ b[c[1]][c[2]] \notin PeerDigits(b, c)

\* b agrees with the grid on every given digit and fills every cell validly.
IsCompletion(b, grid) ==
    /\ SolvedBoard(b)
    /\ \A c \in Cells : grid[c[1]][c[2]] # 0 => b[c[1]][c[2]] = grid[c[1]][c[2]]

\* Some way of filling the open cells of b, each with a digit no peer holds,
\* ends in a full board other than s.  A search of its own: a cell with the
\* fewest candidates first.
RECURSIVE FillsOtherThan(_, _)
FillsOtherThan(b, s) ==
    LET open == {c \in Cells : b[c[1]][c[2]] = 0}
    IN  IF open = {} THEN b # s
        ELSE LET free(c) == Digits \ PeerDigits(b, c)
                 tight == {c \in open : Cardinality(free(c)) <= 1}
                 c == IF tight # {} THEN CHOOSE f \in tight : TRUE
                      ELSE CHOOSE f \in open : TRUE
             IN  \E d \in free(c) : FillsOtherThan([b EXCEPT ![c[1]][c[2]] = d], s)

WellFormed(grid) ==
    /\ \A c \in Cells : grid[c[1]][c[2]] \in 0 .. 9
    /\ NoRepeat(grid)

HasCompletion(grid) == WellFormed(grid) /\ FillsOtherThan(grid, <<>>)

\* s is a completion of the grid and the grid has no other one.
OnlyCompletion(s, grid) ==
    /\ IsCompletion(s, grid)
    /\ ~FillsOtherThan(grid, s)

RECURSIVE SomeCompletion(_)
SomeCompletion(b) ==
    LET open == {c \in Cells : b[c[1]][c[2]] = 0}
    IN  IF open = {} THEN b
        ELSE LET c == CHOOSE f \in open : TRUE
                 d == CHOOSE e \in Digits \ PeerDigits(b, c) :
                         FillsOtherThan([b EXCEPT ![c[1]][c[2]] = e], <<>>)
             IN  SomeCompletion([b EXCEPT ![c[1]][c[2]] = d])

\* The grid has exactly one valid completion.
ExactlyOneCompletion(grid) ==
    /\ HasCompletion(grid)
    /\ ~FillsOtherThan(grid, SomeCompletion(grid))

Terminated == status \in {"aborted", "returned", "panicked"}

-----------------------------------------------------------------------------
(* Claims.                                                                 *)

\* C1: whenever solve() returns normally the board is solved: all 81 cells
\* are assigned and every row, column and region holds each digit 1..9
\* exactly once.
C1_ReturnedBoardSolved ==
    status = "returned" => SolvedBoard(games[1].board)

\* solve() returned through a successful recursive call.
C1_Witness ==
    /\ status = "returned"
    /\ frames[1].pc = "ret_rec"
    /\ SolvedBoard(games[1].board)

\* C2: for an input grid with exactly one valid completion, solve() ends by
\* returning, with the board equal to that completion (it is a completion
\* of the grid, and the grid has only one).
C2_UniqueCompletionFound ==
    (Terminated /\ status # "aborted") =>
        \/ status = "returned" /\ IsCompletion(games[1].board, numbers)
        \/ ~ExactlyOneCompletion(numbers)

\* solve() returned on a grid whose only completion is the board.
C2_Witness ==
    /\ status = "returned"
    /\ numbers = HARD
    /\ OnlyCompletion(games[1].board, numbers)

\* C3: solve() ends in the fatal failure if and only if the input grid has
\* no valid completion: it never panics on a grid that has a completion,
\* and it never returns on a grid that has none (a returned board that
\* completes the grid shows that there is one).
C3_FatalIffNoCompletion ==
    /\ status = "panicked" => ~HasCompletion(numbers)
    /\ status = "returned" =>
          IsCompletion(games[1].board, numbers) \/ HasCompletion(numbers)

\* The panic at the end of solve, on a grid that passed Game::new, after
\* candidates were tried.
C3_Witness ==
    /\ status = "panicked"
    /\ frames[1].pc = "panic"
    /\ Len(tried) = 1
    /\ ~HasCompletion(numbers)

\* C4: Game::new aborts whenever some entry is greater than 9, some row,
\* column or region holds a nonzero digit twice, or some zero cell has all
\* nine digits among its peers; otherwise it returns a state that passes
\* is_valid, whose board holds the nonzero input digits and is unset at the
\* zero entries.
BadGrid(grid) ==
    \/ \E c \in Cells : grid[c[1]][c[2]] > 9
    \/ \E c \in Cells : grid[c[1]][c[2]] # 0 /\ grid[c[1]][c[2]] \in PeerDigits(grid, c)
    \/ \E c \in Cells : grid[c[1]][c[2]] = 0 /\ Digits \subseteq PeerDigits(grid, c)

C4_NewAbortsIffBadGrid ==
    /\ status \notin {"start", "cells", "undo"} => (status = "aborted" <=> BadGrid(numbers))
    /\ status = "built" =>
          /\ is_valid(games[1])
          /\ \A c \in Cells :
                games[1].board[c[1]][c[2]] =
                   IF numbers[c[1]][c[2]] = 0 THEN None ELSE numbers[c[1]][c[2]]

\* Game::new aborted on a grid in range and without a repeated digit: some
\* zero cell has no digit left.
C4_Witness ==
    /\ status = "aborted"
    /\ WellFormed(numbers)
    /\ \E c \in Cells : numbers[c[1]][c[2]] = 0 /\ Digits \subseteq PeerDigits(numbers, c)

\* C5: solve() terminates, by returning or by the fatal failure (or the
\* input is refused by Game::new).
C5_SolveTerminates == <>Terminated

\* solve() returned on the empty grid, after a search with backtracking.
C5_Witness ==
    /\ status = "returned"
    /\ numbers = ZEROS
    /\ frames[1].pc = "ret_rec"

\* C6: after any sequence of set_cell / unset_cell calls, every unassigned
\* cell's possibility set is exactly the set of digits that none of its
\* peers holds.
PossOf(g, c) == {i + 1 : i \in {j \in Idx : g.cell_poss[c[1]][c[2]][j]}}

C6_PossIsComplementOfPeers ==
    status = "cells" =>
        \A c \in Cells :
            games[1].board[c[1]][c[2]] = None =>
                PossOf(games[1], c) = Digits \ PeerDigits(games[1].board, c)

\* A call of propagate_poss_to_board on g makes at least one set_cell call.
propagate_changes(g) ==
    /\ ~solved(g)
    /\ \/ \E p \in FlagChecks : flag_target(g, p) # <<>>
       \/ \E k \in CellChecks : cell_fires(g, k)

\* C7: propagate_poss_to_board returns true exactly when it assigned a
\* previously unassigned cell, never changes a cell that was assigned, and
\* when it returns false it has changed nothing and a further call would
\* change nothing either.
C7_PropagateReturnValue ==
    (Len(last_prop) = 1 /\ last_prop[1].done) =>
        LET b == last_prop[1].before
            a == last_prop[1].after
        IN  /\ last_prop[1].ret <=>
                  \E c \in Cells : b.board[c[1]][c[2]] = None /\ a.board[c[1]][c[2]] # None
            /\ \A c \in Cells :
                  b.board[c[1]][c[2]] # None => a.board[c[1]][c[2]] = b.board[c[1]][c[2]]
            /\ ~last_prop[1].ret => a = b /\ ~propagate_changes(a)

\* A call that follows a call that filled cells returned false on a game
\* that is not solved.
C7_Witness ==
    /\ Len(last_prop) = 1
    /\ last_prop[1].done
    /\ ~last_prop[1].ret
    /\ ~solved(last_prop[1].after)
    /\ Len(last_set) = 1

\* C8 as stated: the validity check of a candidate is made on a state that
\* propagation has brought to its fixpoint.
C8_CheckedAfterPropagation ==
    Len(tried) = 1 => ~propagate_changes(tried[1].checked)

\* C8 amended: the validity check of a candidate is made on the state right
\* after the single assignment (self with the branch cell set, nothing else
\* filled in); propagation runs afterwards, in the recursive call.
C8_CheckedRightAfterAssignment ==
    Len(tried) = 1 =>
        LET t == tried[1]
        IN  /\ t.checked.board = [t.self.board EXCEPT ![t.y][t.x] = t.cv]
            /\ t.self.board[t.y][t.x] = None
            /\ t.valid <=> (\A c \in Cells :
                               t.checked.board[c[1]][c[2]] = None =>
                                   PossOf(t.checked, c) # {})
            /\ (status = "solving" /\ frames[Top].pc = "entry") =>
                   games[Top] = t.checked

\* A candidate was rejected while propagation still had cells to fill.
C8_Witness ==
    /\ Len(tried) = 1
    /\ ~tried[1].valid
    /\ propagate_changes(tried[1].checked)

C10_DepthWithinCap ==
    \A k \in 1 .. Top :
        frames[k].fn = "solve_recursive" =>
            /\ frames[k].depth <= frames[k].max_depth
            /\ frames[k].max_depth = frames[1].max_depth
            /\ status = "solving" =>
                  frames[1].max_depth =
                     Cardinality({c \in Cells : games[1].board[c[1]][c[2]] = None})

\* solve_recursive was entered from solve_recursive.
C10_Witness ==
    /\ Top >= 3
    /\ frames[Top].pc = "entry"
    /\ frames[Top].depth = Top - 1
    /\ frames[Top].depth <= frames[Top].max_depth

\* C11: in a state reached from Game::new by assigning only digits of the
\* target cell's possibility set, set_cell(row, col, d) on an unset cell with
\* d in its possibility set, followed by unset_cell(row, col), restores the
\* board, all possibility sets and the row, column and region flags.
C11_UnsetUndoesSet ==
    (Len(tried) = 1 /\ tried[1].undone # tried[1].checked) =>
        /\ tried[1].undone.board = tried[1].self.board
        /\ tried[1].undone.cell_poss = tried[1].self.cell_poss
        /\ tried[1].undone.rows_flags = tried[1].self.rows_flags
        /\ tried[1].undone.cols_flags = tried[1].self.cols_flags
        /\ tried[1].undone.sqrs_flags = tried[1].self.sqrs_flags

\* set_cell then unset_cell was applied, after two assignments, to a cell
\* that has an assigned cell among its peers.
C11_Witness ==
    /\ status = "undo"
    /\ ops = 2
    /\ Len(tried) = 1
    /\ tried[1].checked.board[tried[1].y][tried[1].x] = tried[1].cv
    /\ tried[1].undone.board[tried[1].y][tried[1].x] = None
    /\ PeerDigits(tried[1].self.board, <<tried[1].y, tried[1].x>>) # {}
    /\ tried[1].undone = tried[1].self

\* No row, column or region of the board holds a digit twice.
AtMostOnce(b) ==
    \A u \in Units, d \in Digits :
        Cardinality({c \in u : b[c[1]][c[2]] = d}) <= 1

\* Some unset cell of g has an empty possibility set.
HasDeadCell(g) ==
    \E c \in Cells : g.board[c[1]][c[2]] = None /\ PossOf(g, c) = {}

\* A step leaves every Game below the innermost one as it is: the states on
\* the call stack are states that were innermost, unchanged since.
StackKept ==
    \A k \in 1 .. Len(games) : k < Len(games') => games'[k] = games[k]

\* No digit twice in the innermost state and in the tentative copy; their
\* duplicate scans pass; a rejected copy has a dead cell.
NoDigitTwiceInnermost ==
    /\ Len(games) > 0 =>
          /\ AtMostOnce(games[Len(games)].board)
          /\ no_conflict(games[Len(games)])
          /\ solved(games[Len(games)]) <=>
                 (\A c \in Cells : games[Len(games)].board[c[1]][c[2]] # None)
    /\ Len(tried) = 1 =>
          /\ AtMostOnce(tried[1].checked.board)
          /\ no_conflict(tried[1].checked)
          /\ ~tried[1].valid => HasDeadCell(tried[1].checked)

\* C12: after a successful Game::new and during solve(), no row, column or
\* region holds an assigned digit twice, in the states on the call stack
\* (between the set_cell calls of propagation included) and in every
\* tentative copy; so the duplicate scan of is_valid and solved never fails,
\* and a candidate is rejected only because an unset cell has no possible
\* digit left.
C12_NoDigitTwice == []NoDigitTwiceInnermost /\ [][StackKept]_vars

\* Inside a recursive call a candidate was rejected: its copy has an unset
\* cell with no possible digit and no digit twice.
C12_Witness ==
    /\ status = "solving"
    /\ Top > 1
    /\ Len(tried) = 1
    /\ tried[1].level = Top
    /\ ~tried[1].valid
    /\ HasDeadCell(tried[1].checked)
    /\ AtMostOnce(tried[1].checked.board)

\* The flags of g say which digits its rows, columns and regions hold, a set
\* cell's possibility array lists its digit alone, and an unset cell's lists
\* the digits whose row, column and region flags are all false.
FlagsAgree(g) ==
    /\ \A j \in Idx, i \in Idx :
          /\ g.rows_flags[j][i] <=> \E x \in Idx : g.board[j][x] = i + 1
          /\ g.cols_flags[j][i] <=> \E y \in Idx : g.board[y][j] = i + 1
          /\ g.sqrs_flags[j][i] <=>
                \E p \in Idx : g.board[3 * (j \div 3) + (p \div 3)]
                                      [3 * (j % 3) + (p % 3)] = i + 1
    /\ \A y \in Idx, x \in Idx :
          IF g.board[y][x] # None
          THEN \A i \in Idx : g.cell_poss[y][x][i] <=> (i + 1 = g.board[y][x])
          ELSE \A i \in Idx :
                  g.cell_poss[y][x][i] <=>
                     ~(\/ g.rows_flags[y][i]
                       \/ g.cols_flags[x][i]
                       \/ g.sqrs_flags[3 * (y \div 3) + (x \div 3)][i])

FlagsAgreeInnermost ==
    /\ Len(games) > 0 => FlagsAgree(games[Len(games)])
    /\ Len(tried) = 1 => FlagsAgree(tried[1].checked) /\ FlagsAgree(tried[1].undone)

\* C13: after a successful Game::new and during solve(), in every state on
\* the call stack and in every tentative copy, the row, column and region
\* flags agree with the board, every set cell's possibility set is the
\* singleton of its digit, and every unset cell's possibility set is the set
\* of digits whose three flags are false.
C13_FlagsInSync == []FlagsAgreeInnermost /\ [][StackKept]_vars

\* Inside a recursive call, between two set_cell calls of propagation, the
\* flags agree with a board that propagation has changed.
C13_Witness ==
    /\ status = "solving"
    /\ Top > 2
    /\ frames[Top].pc = "cells"
    /\ frames[Top].made_change
    /\ Len(last_set) = 1
    /\ games[Top].board[last_set[1].r][last_set[1].c] = last_set[1].cv
    /\ games[Top].rows_flags[last_set[1].r][USize(last_set[1].cv)]
    /\ FlagsAgree(games[Top])

------------------------------------------------------------------------------
\* Every nonzero cell of the input grid holds its digit in g.
GivensKept(g) ==
    \A y \in Idx, x \in Idx : numbers[y][x] # 0 => g.board[y][x] = numbers[y][x]

\* Board b holds every digit that board a holds, in the same cell.
Extends(a, b) ==
    \A y \in Idx, x \in Idx : a[y][x] # None => b[y][x] = a[y][x]

\* Boards a and b are the same outside cell (y, x).
SameButAt(a, b, y, x) ==
    \A r \in Idx, c \in Idx : (r # y \/ c # x) => b[r][c] = a[r][c]

\* The givens are in place in the innermost state and in the tentative copy;
\* the search assigned a cell that was unset, and unset_cell, when it was
\* called, cleared that cell and nothing else; propagation's last set_cell
\* was made on an unset cell.
GivensAndBranchCell ==
    /\ Len(games) > 0 => GivensKept(games[Len(games)])
    /\ Len(tried) = 1 =>
          /\ GivensKept(tried[1].checked)
          /\ GivensKept(tried[1].undone)
          /\ tried[1].self.board[tried[1].y][tried[1].x] = None
          /\ tried[1].checked.board[tried[1].y][tried[1].x] = tried[1].cv
          /\ SameButAt(tried[1].self.board, tried[1].checked.board,
                       tried[1].y, tried[1].x)
          /\ SameButAt(tried[1].checked.board, tried[1].undone.board,
                       tried[1].y, tried[1].x)
          /\ tried[1].undone.board[tried[1].y][tried[1].x] =
                 (IF tried[1].valid THEN tried[1].cv ELSE None)
    /\ Len(last_set) = 1 => last_set[1].prev = None

\* A step takes no digit off a board on the call stack and changes none: a
\* Game that stays on the stack keeps its digits, and a Game pushed on the
\* stack holds the digits of the one it was copied from.
DigitsStay ==
    /\ \A k \in 1 .. Len(games) :
          k <= Len(games') =>
             \/ games'[k] = games[k]
             \/ Extends(games[k].board, games'[k].board)
    /\ (Len(games) > 0 /\ Len(games') > Len(games)) =>
          Extends(games[Len(games)].board, games'[Len(games')].board)

\* C14: during solve() and when it returns, every cell that was nonzero in the
\* input grid holds that digit; unset_cell is applied only to the cell the
\* same loop iteration has just assigned on its tentative copy; propagation
\* and search assign only cells that are unset, so no state on the call stack
\* ever loses or changes a digit.
C14_GivensNeverChanged ==
    []GivensAndBranchCell /\ [][StackKept /\ DigitsStay]_vars

\* solve() has returned from a search on a grid with givens, the last
\* candidate tried was rejected and undone, and the givens are in place.
C14_Witness ==
    /\ status = "returned"
    /\ \E y \in Idx, x \in Idx : numbers[y][x] # 0
    /\ GivensKept(games[1])
    /\ Len(tried) = 1
    /\ \E y \in Idx, x \in Idx : numbers[y][x] = 0 /\ games[1].board[y][x] # None
    /\ Len(last_set) = 1
    /\ last_set[1].prev = None

====
